---------------------------- MODULE Spec2Model ----------------------------
(***************************************************************************)
(* The TurboRacers race engine (race-engine-starter.js, src/unnamed/       *)
(* part_001 lines 96-316): runRace seeds a race from GET /racers, then     *)
(* ticks: advance, sort and detect overtakes, crash pass, finish pass,     *)
(* completion check.  Every overtake, crash and finish adjusts the         *)
(* racer's price with applyPercentBigInt and posts it to /update-price.    *)
(*                                                                         *)
(* Numbers.  Prices are decimal strings handled through BigInt; they are   *)
(* modelled as digit sequences with arbitrary-precision arithmetic.        *)
(* Distances are JavaScript numbers; they are modelled exactly, as         *)
(* integers counting 1/Q of a distance unit (Q below), so the rounding of  *)
(* IEEE doubles is not modelled.  Math.random() is drawn from a grid of    *)
(* NoiseSteps points where its value matters (the noise) and as a free     *)
(* boolean where only a comparison with it matters (burst, crash).         *)
(***************************************************************************)
EXTENDS Integers, Sequences, FiniteSets, TLC

(***************************************************************************)
(* Bounds of the model.                                                    *)
(***************************************************************************)
\* Math.random() takes the values k/NoiseSteps, k = 0..NoiseSteps-1, in the noise term.
NoiseSteps == 2
\* The random source yields at most MaxCrashes crash outcomes in one race.
MaxCrashes == 2
\* tick is kept exactly up to MaxTick and then held there (it is only printed).
MaxTick == 3

(***************************************************************************)
(* Program constants.                                                      *)
(***************************************************************************)
RACE_DISTANCE == 5000
BASE_DRIFT == 5
OVERTAKE_BONUS_PCT == 10
CRASH_PENALTY_PCT == 20
WINNER_BONUS_PCT == 5

(***************************************************************************)
(* Decimal strings and BigInt.  A wei string is [neg, digits], digits most *)
(* significant first ("-120" is [neg |-> TRUE, digits |-> <<1,2,0>>]).  A  *)
(* BigInt is [neg, mag], mag least significant first with no high zeros    *)
(* (zero is the empty magnitude and is never negative).                    *)
(***************************************************************************)
Str(ds) == [neg |-> FALSE, digits |-> ds]

RECURSIVE Reverse(_)
Reverse(s) == IF s = <<>> THEN <<>> ELSE Reverse(Tail(s)) \o <<Head(s)>>

\* Drops the zeros at the most significant (last) end of a magnitude.
RECURSIVE Trim(_)
Trim(m) ==
  IF m = <<>> THEN <<>>
  ELSE IF m[Len(m)] = 0 THEN Trim(SubSeq(m, 1, Len(m) - 1))
  ELSE m

Big(neg, mag) ==
  LET t == Trim(mag) IN [neg |-> (neg /\ t # <<>>), mag |-> t]

\* BigInt(weiStr): parses a decimal string.
BigInt(weiStr) == Big(weiStr.neg, Reverse(weiStr.digits))

\* BigInt(pct) for a small JavaScript number.
RECURSIVE NatMag(_)
NatMag(n) == IF n = 0 THEN <<>> ELSE <<n % 10>> \o NatMag(n \div 10)

BigOfNumber(n) == IF n < 0 THEN Big(TRUE, NatMag(-n)) ELSE Big(FALSE, NatMag(n))

\* x.toString(): canonical decimal, "0" for zero.
BigToString(x) ==
  [neg |-> x.neg, digits |-> IF x.mag = <<>> THEN <<0>> ELSE Reverse(x.mag)]

RECURSIVE MagAdd(_, _, _)
MagAdd(a, b, carry) ==
  IF a = <<>> /\ b = <<>>
  THEN (IF carry = 0 THEN <<>> ELSE <<carry>>)
  ELSE LET da == IF a = <<>> THEN 0 ELSE Head(a)
           db == IF b = <<>> THEN 0 ELSE Head(b)
           t  == da + db + carry
       IN <<t % 10>> \o MagAdd(IF a = <<>> THEN <<>> ELSE Tail(a),
                               IF b = <<>> THEN <<>> ELSE Tail(b),
                               t \div 10)

\* a - b for magnitudes with a >= b.
RECURSIVE MagSub(_, _, _)
MagSub(a, b, borrow) ==
  IF a = <<>> THEN <<>>
  ELSE LET db == IF b = <<>> THEN 0 ELSE Head(b)
           t  == Head(a) - db - borrow
       IN <<IF t < 0 THEN t + 10 ELSE t>>
          \o MagSub(Tail(a), IF b = <<>> THEN <<>> ELSE Tail(b),
                    IF t < 0 THEN 1 ELSE 0)

\* a < b for trimmed magnitudes.
RECURSIVE MagLess(_, _)
MagLess(a, b) ==
  IF Len(a) # Len(b) THEN Len(a) < Len(b)
  ELSE IF a = <<>> THEN FALSE
  ELSE IF a[Len(a)] # b[Len(b)] THEN a[Len(a)] < b[Len(b)]
  ELSE MagLess(SubSeq(a, 1, Len(a) - 1), SubSeq(b, 1, Len(b) - 1))

RECURSIVE MagMul(_, _, _)
MagMul(a, k, carry) ==
  IF a = <<>>
  THEN NatMag(carry)
  ELSE LET t == Head(a) * k + carry
       IN <<t % 10>> \o MagMul(Tail(a), k, t \div 10)

\* Long division of the digits ds (most significant first) by d: the quotient's
\* digits, most significant first.
RECURSIVE LongDiv(_, _, _)
LongDiv(ds, d, rem) ==
  IF ds = <<>> THEN <<>>
  ELSE LET t == rem * 10 + Head(ds)
       IN <<t \div d>> \o LongDiv(Tail(ds), d, t % d)

\* x + y
BigAdd(x, y) ==
  IF x.neg = y.neg THEN Big(x.neg, MagAdd(x.mag, y.mag, 0))
  ELSE IF MagLess(x.mag, y.mag) THEN Big(y.neg, MagSub(y.mag, x.mag, 0))
  ELSE Big(x.neg, MagSub(x.mag, y.mag, 0))

\* x - y
BigSub(x, y) == BigAdd(x, Big(~y.neg, y.mag))

\* x * y
BigMul(x, y) ==
  LET RECURSIVE Rows(_, _)
      \* sum over the digits of y.mag of x.mag * digit, shifted
      Rows(ym, shift) ==
        IF ym = <<>> THEN <<>>
        ELSE MagAdd(shift \o MagMul(x.mag, Head(ym), 0), Rows(Tail(ym), shift \o <<0>>), 0)
  IN Big(x.neg # y.neg, Rows(y.mag, <<>>))

\* x / y for a positive y below 2^31/10 given as a number: BigInt division
\* truncates toward zero.
BigDivNat(x, d) == Big(x.neg, Reverse(LongDiv(Reverse(x.mag), d, 0)))

\* Mutant: the division by 100 comes before the multiplication by pct.
applyPercentBigInt_divFirst(weiStr, pct, increase) ==
  LET val    == BigInt(weiStr)
      change == BigMul(BigDivNat(val, 100), BigOfNumber(pct))
  IN BigToString(IF increase THEN BigAdd(val, change) ELSE BigSub(val, change))

\* Mutant: the increase flag is ignored, the change is always added.
applyPercentBigInt_alwaysAdd(weiStr, pct, increase) ==
  LET val    == BigInt(weiStr)
      change == BigDivNat(BigMul(val, BigOfNumber(pct)), 100)
  IN BigToString(BigAdd(val, change))

\* Mutant: the change is val * pct, not divided by 100.
applyPercentBigInt_noDivide(weiStr, pct, increase) ==
  LET val    == BigInt(weiStr)
      change == BigMul(val, BigOfNumber(pct))
  IN BigToString(IF increase THEN BigAdd(val, change) ELSE BigSub(val, change))

\* BigInt percentage helper using wei strings.
applyPercentBigInt(weiStr, pct, increase) ==
  LET val    == BigInt(weiStr)
      change == BigDivNat(BigMul(val, BigOfNumber(pct)), 100)
  IN BigToString(IF increase THEN BigAdd(val, change) ELSE BigSub(val, change))

(***************************************************************************)
(* Distances.  One distance unit is Q model units, so that every term of   *)
(* racerSpeedTick is an integer: noise has the denominator 400*NoiseSteps  *)
(* and aggression/20 the denominator 20.                                   *)
(***************************************************************************)
Q == 400 * NoiseSteps

\* The outcomes of (Math.random() < num/den) for Math.random() in [0, 1).
RandomLess(num, den) ==
  {b \in BOOLEAN : (b => num > 0) /\ (~b => num < den)}

\* Mutant: the base speed is left out of the sample.
racerSpeedTick_noSpeed(racer, baseDrift, k, burst) ==
  LET consistency == IF racer.consistency = 0 THEN 100 ELSE racer.consistency
      oneMinusFactor200 == 200 - consistency
      noise == 2 * k * baseDrift * oneMinusFactor200
               - NoiseSteps * baseDrift * oneMinusFactor200
      aggressionBurst == IF burst THEN 20 * NoiseSteps * racer.aggression ELSE 0
      v == aggressionBurst + noise
  IN IF v > 0 THEN v ELSE 0

\* Mutant: the sample is not clamped at 0.
racerSpeedTick_noMax(racer, baseDrift, k, burst) ==
  LET consistency == IF racer.consistency = 0 THEN 100 ELSE racer.consistency
      oneMinusFactor200 == 200 - consistency
      noise == 2 * k * baseDrift * oneMinusFactor200
               - NoiseSteps * baseDrift * oneMinusFactor200
      aggressionBurst == IF burst THEN 20 * NoiseSteps * racer.aggression ELSE 0
  IN Q * racer.speed + aggressionBurst + noise

\* racerSpeedTick, in model units; k/NoiseSteps is the noise term's
\* Math.random() and burst the outcome of Math.random() < aggression/500.
racerSpeedTick(racer, baseDrift, k, burst) ==
  LET consistency == IF racer.consistency = 0 THEN 100 ELSE racer.consistency
      \* 200 * (1 - consistencyFactor)
      oneMinusFactor200 == 200 - consistency
      \* Q * (random*BASE_DRIFT*(1 - cf) - (BASE_DRIFT/2)*(1 - cf))
      noise == 2 * k * baseDrift * oneMinusFactor200
               - NoiseSteps * baseDrift * oneMinusFactor200
      aggressionBurst == IF burst THEN 20 * NoiseSteps * racer.aggression ELSE 0
      v == Q * racer.speed + aggressionBurst + noise
  IN IF v > 0 THEN v ELSE 0

\* Every value racerSpeedTick can return for a racer.
SpeedSamples(r, baseDrift) ==
  {racerSpeedTick([speed |-> r.speedStat, aggression |-> r.aggression,
                   consistency |-> r.consistency], baseDrift, k, b) :
     k \in 0..(NoiseSteps - 1), b \in RandomLess(r.aggression, 500)}

\* crashProb = 0.002 + 0.01*aggFactor + 0.01*consFactor*aggFactor, as a
\* numerator over CrashProbDen.
CrashProbDen == 6502500
CrashProbNum(r) ==
  13005 + 255 * r.aggression + (255 - r.consistency) * r.aggression

(***************************************************************************)
(* Rosters: what GET /racers returns, with the race parameters.            *)
(***************************************************************************)
Racer(id, name, speed, aggression, consistency, price) ==
  [id |-> id, name |-> name, speed |-> speed, aggression |-> aggression,
   consistency |-> consistency, currentPrice |-> price]

OneEther == Str(<<1,0,0,0,0,0,0,0,0,0,0,0,0,0,0,0,0,0,0>>)

\* No racer minted yet; the constants of the source.
EmptyRoster ==
  [name |-> "empty", racers |-> <<>>,
   RACE_DISTANCE |-> RACE_DISTANCE, BASE_DRIFT |-> BASE_DRIFT]

\* One racer and the constants of the source.
DefaultRoster ==
  [name |-> "default",
   racers |-> <<Racer(1, "Speedster", 255, 0, 200, OneEther)>>,
   RACE_DISTANCE |-> RACE_DISTANCE, BASE_DRIFT |-> BASE_DRIFT]

\* One fast and two slow racers, a short race without noise.
ThreeRoster ==
  [name |-> "three",
   racers |-> <<Racer(1, "A", 200, 0, 255, Str(<<1,5,5>>)),
                Racer(2, "B", 1, 0, 255, Str(<<7>>)),
                Racer(3, "C", 1, 0, 255, OneEther)>>,
   RACE_DISTANCE |-> 10, BASE_DRIFT |-> 0]

\* Two racers of steady speed (consistency 200: no noise).
DuelRoster ==
  [name |-> "duel",
   racers |-> <<Racer(1, "A", 5, 0, 200, Str(<<1,0,9>>)),
                Racer(2, "B", 2, 0, 200, Str(<<3>>))>>,
   RACE_DISTANCE |-> 6, BASE_DRIFT |-> BASE_DRIFT]

\* Two slow, noisy racers: an aggressive one with consistency 0 and price 0,
\* and a steady one (consistency 200: no noise).
NoisyRoster ==
  [name |-> "noisy",
   racers |-> <<Racer(1, "N", 1, 40, 0, Str(<<0>>)),
                Racer(2, "M", 1, 0, 200, Str(<<2,5,0>>))>>,
   RACE_DISTANCE |-> 1, BASE_DRIFT |-> BASE_DRIFT]

Rosters == {EmptyRoster, DefaultRoster, ThreeRoster, DuelRoster, NoisyRoster}

(***************************************************************************)
(* The Registry: the contract TurboRacers.  A world is its storage, with   *)
(* the prices (racers[id].currentPrice) kept apart as `chain`; a call      *)
(* returns the world it leaves and whether it reverted.                    *)
(***************************************************************************)
\* The accounts that send transactions; the first deploys the contract.
Deployer == "owner"
Addresses == {Deployer, "server", "stranger"}

\* How many racers are minted at most.
MaxMint == 2

\* constructor() Ownable(msg.sender) { nextId = 1; priceUpdater = owner(); }
constructor(sender) ==
  [registry |-> [owner |-> sender, priceUpdater |-> sender, nextId |-> 1,
                 racers |-> <<>>, racerIds |-> <<>>],
   chain |-> <<>>]

\* A reverted call changes no storage.
Revert(w) == [registry |-> w.registry, chain |-> w.chain, reverted |-> TRUE, id |-> 0]

\* mapping assignment: racers[k] = v
Put(f, k, v) == [x \in DOMAIN f \cup {k} |-> IF x = k THEN v ELSE f[x]]

\* racers[id].exists
Exists(reg, id) == id \in DOMAIN reg.racers /\ reg.racers[id].exists

\* modifier onlyOwner (Ownable): msg.sender == owner()
onlyOwner(reg, sender) == sender = reg.owner

\* Mutant: the modifier lets every sender through.
onlyUpdater_anyone(reg, sender) == TRUE

\* modifier onlyUpdater
onlyUpdater(reg, sender) == sender = reg.owner \/ sender = reg.priceUpdater

setPriceUpdater(w, sender, updater) ==
  IF ~onlyOwner(w.registry, sender) THEN Revert(w)
  ELSE [registry |-> [w.registry EXCEPT !.priceUpdater = updater],
        chain |-> w.chain, reverted |-> FALSE, id |-> 0]

\* Mutant: the id counter is not advanced.
mintRacer_sameId(w, sender, name, speed, aggression, consistency, initialPrice) ==
  IF ~onlyOwner(w.registry, sender) THEN Revert(w)
  ELSE LET id == w.registry.nextId
       IN [registry |->
             [w.registry EXCEPT
                !.racers = Put(@, id, [id |-> id, name |-> name, speed |-> speed,
                                       aggression |-> aggression,
                                       consistency |-> consistency,
                                       exists |-> TRUE]),
                !.racerIds = Append(@, id)],
           chain |-> Put(w.chain, id, initialPrice),
           reverted |-> FALSE, id |-> id]

mintRacer(w, sender, name, speed, aggression, consistency, initialPrice) ==
  IF ~onlyOwner(w.registry, sender) THEN Revert(w)
  ELSE LET id == w.registry.nextId
       IN [registry |->
             [w.registry EXCEPT
                !.nextId = id + 1,
                !.racers = Put(@, id, [id |-> id, name |-> name, speed |-> speed,
                                       aggression |-> aggression,
                                       consistency |-> consistency,
                                       exists |-> TRUE]),
                !.racerIds = Append(@, id)],
           chain |-> Put(w.chain, id, initialPrice),
           reverted |-> FALSE, id |-> id]

updatePrice(w, sender, id, newPrice) ==
  IF ~onlyUpdater(w.registry, sender) THEN Revert(w)
  ELSE IF ~Exists(w.registry, id) THEN Revert(w)
  ELSE [registry |-> w.registry, chain |-> [w.chain EXCEPT ![id] = newPrice],
        reverted |-> FALSE, id |-> id]

\* The world after the deployer has minted the racers of a roster in order
\* (scripts/mint-sample.js).
RECURSIVE Minted(_)
Minted(racers) ==
  IF racers = <<>> THEN constructor(Deployer)
  ELSE LET r == racers[Len(racers)]
           w == Minted(SubSeq(racers, 1, Len(racers) - 1))
       IN mintRacer(w, Deployer, r.name, r.speed, r.aggression, r.consistency,
                    r.currentPrice)

(***************************************************************************)
(* State.                                                                  *)
(***************************************************************************)
VARIABLES
  cfg,          \* the roster read at startup and the race parameters
  pc,           \* where runRace is
  state,        \* the array `state`, in its current order
  lastOrder,    \* state._lastOrder
  tick,         \* tick
  chain,        \* the Registry's stored price of every id
  events,       \* the events logged in the current tick, in order
  writes,       \* the postUpdatePrice calls of the current tick, in order
  finishes,     \* how many FINISH events each id has had in the race
  crashes,      \* how many CRASH events each id has had in the race
  registry,     \* the Registry's storage but for the prices
  call          \* the last transaction sent to the Registry

vars == <<cfg, pc, state, lastOrder, tick, chain, events, writes, finishes,
          crashes, registry, call>>

Ids == {cfg.racers[i].id : i \in DOMAIN cfg.racers}

RECURSIVE Sum(_, _)
Sum(f, S) == IF S = {} THEN 0 ELSE LET x == CHOOSE x \in S : TRUE IN f[x] + Sum(f, S \ {x})

\* The crash outcomes the random source can still yield in this race.
CrashesLeft == MaxCrashes - Sum(crashes, Ids)

\* No transaction has been sent since the racers were minted.
NoCall == [fn |-> "none", sender |-> "none", id |-> 0, reverted |-> FALSE]

Undefined == [defined |-> FALSE, ids |-> <<>>]
Order(ids) == [defined |-> TRUE, ids |-> ids]

\* state.map(s => s.id)
IdsOf(s) == [i \in DOMAIN s |-> s[i].id]

\* Array.prototype.indexOf, as a position from 1 (0 when absent).
IndexOf(seq, x) ==
  IF \E j \in DOMAIN seq : seq[j] = x
  THEN CHOOSE j \in DOMAIN seq : seq[j] = x /\ \A h \in 1..(j - 1) : seq[h] # x
  ELSE 0

\* state.find(x => x.id === id), as a position.
Find(s, id) == IndexOf(IdsOf(s), id)

\* Mutant: the comparator sorts by ascending distance.
compare_asc(a, b) == a.distance - b.distance

\* The comparator of both sorts: (a, b) => Number(b.distance - a.distance).
compare(a, b) == b.distance - a.distance

\* Mutant: a sort that puts an element before the ones it ties with.
RECURSIVE sort_unstable(_)
sort_unstable(s) ==
  IF s = <<>> THEN <<>>
  ELSE LET x == s[Len(s)]
           t == sort_unstable(SubSeq(s, 1, Len(s) - 1))
           n == Cardinality({j \in DOMAIN t : compare(t[j], x) < 0})
       IN SubSeq(t, 1, n) \o <<x>> \o SubSeq(t, n + 1, Len(t))

\* Array.prototype.sort with that comparator: a stable sort.
RECURSIVE sort(_)
sort(s) ==
  IF s = <<>> THEN <<>>
  ELSE LET x == s[Len(s)]
           t == sort(SubSeq(s, 1, Len(s) - 1))
           n == Cardinality({j \in DOMAIN t : compare(t[j], x) <= 0})
       IN SubSeq(t, 1, n) \o <<x>> \o SubSeq(t, n + 1, Len(t))

Init ==
  /\ cfg \in Rosters
  /\ pc = "start"
  /\ state = <<>>
  /\ lastOrder = Undefined
  /\ tick = 0
  /\ chain = [id \in Ids |-> cfg.racers[IndexOf(IdsOf(cfg.racers), id)].currentPrice]
  /\ events = <<>>
  /\ writes = <<>>
  /\ finishes = [id \in Ids |-> 0]
  /\ crashes = [id \in Ids |-> 0]
  /\ registry = Minted(cfg.racers).registry
  /\ call = NoCall

(***************************************************************************)
(* Writes.                                                                 *)
(***************************************************************************)
\* Mutant: the server answers ok without sending the transaction.
postUpdatePrice_dropped(ch, id, priceWeiStr, ok) ==
  [chain |-> ch, threw |-> ~ok]

\* postUpdatePrice and the server's POST /update-price behind it: when the
\* request goes through (ok), the Registry stores the price; otherwise the
\* response is not ok and postUpdatePrice throws.
postUpdatePrice(ch, id, priceWeiStr, ok) ==
  IF ok
  THEN [chain |-> [ch EXCEPT ![id] = priceWeiStr], threw |-> FALSE]
  ELSE [chain |-> ch, threw |-> TRUE]

\* Mutant: the write is not inside try/catch, so its exception escapes.
TryPostUpdatePrice_uncaught(ch, id, nw, ok) ==
  LET res == postUpdatePrice(ch, id, nw, ok)
  IN [chain |-> res.chain, escaped |-> res.threw]

\* try { await postUpdatePrice(id, nw) } catch (e) { console.error(...) }:
\* escaped tells whether the exception leaves the try statement.
TryPostUpdatePrice(ch, id, nw, ok) ==
  LET res == postUpdatePrice(ch, id, nw, ok)
  IN [chain |-> res.chain, escaped |-> FALSE]

(***************************************************************************)
(* The passes of a tick run over an accumulator: the array, the Registry,  *)
(* the tick's logs, the FINISH counts, and whether an exception escaped    *)
(* (which ends the pass and runRace).                                      *)
(***************************************************************************)
Acc(s, ch, ev, wr, fin) ==
  [state |-> s, chain |-> ch, events |-> ev, writes |-> wr, finishes |-> fin,
   escaped |-> FALSE]

\* Mutant: a failed write is retried once.
UpdatePrice_retry(acc, j, ev, pct, increase, ok) ==
  LET racer == acc.state[j]
      old   == racer.currentPriceWei
      nw    == applyPercentBigInt(old, pct, increase)
      res   == TryPostUpdatePrice(acc.chain, racer.id, nw, ok)
      w     == [id |-> racer.id, price |-> nw, ok |-> ok]
  IN [acc EXCEPT
        !.state   = [@ EXCEPT ![j].currentPriceWei = nw],
        !.chain   = res.chain,
        !.events  = Append(@, ev),
        !.writes  = IF ok THEN Append(@, w) ELSE Append(Append(@, w), w),
        !.escaped = res.escaped]

\* The price update of an event for the racer at position j: the new price
\* is stored locally, then posted inside try/catch.
UpdatePrice(acc, j, ev, pct, increase, ok) ==
  LET racer == acc.state[j]
      old   == racer.currentPriceWei
      nw    == applyPercentBigInt(old, pct, increase)
      res   == TryPostUpdatePrice(acc.chain, racer.id, nw, ok)
  IN [acc EXCEPT
        !.state   = [@ EXCEPT ![j].currentPriceWei = nw],
        !.chain   = res.chain,
        !.events  = Append(@, ev),
        !.writes  = Append(@, [id |-> racer.id, price |-> nw, ok |-> ok]),
        !.escaped = res.escaped]

\* The ids whose rank improved against prevOrder.
Overtakers(curOrder, prevOrder) ==
  {curOrder[i] : i \in {h \in DOMAIN curOrder : IndexOf(prevOrder, curOrder[h]) > h}}

\* Mutant: the event is logged for the ids whose rank got worse.
RECURSIVE OvertakeLoop_worse(_, _, _, _, _)
OvertakeLoop_worse(i, acc, curOrder, prevOrder, ok) ==
  IF i > Len(curOrder) \/ acc.escaped THEN acc
  ELSE LET id        == curOrder[i]
           prevIndex == IndexOf(prevOrder, id)
       IN IF prevIndex < i
          THEN OvertakeLoop_worse(i + 1,
                 UpdatePrice(acc, Find(acc.state, id),
                             [kind |-> "OVERTAKE", id |-> id,
                              oldRank |-> prevIndex, newRank |-> i],
                             OVERTAKE_BONUS_PCT, TRUE, ok[id]),
                 curOrder, prevOrder, ok)
          ELSE OvertakeLoop_worse(i + 1, acc, curOrder, prevOrder, ok)

\* for (let i = 0; i < curOrder.length; i++) { ... }; positions count from 1,
\* so the logged ranks are prevIndex and i themselves.
RECURSIVE OvertakeLoop(_, _, _, _, _)
OvertakeLoop(i, acc, curOrder, prevOrder, ok) ==
  IF i > Len(curOrder) \/ acc.escaped THEN acc
  ELSE LET id        == curOrder[i]
           prevIndex == IndexOf(prevOrder, id)
       IN IF prevIndex > i
          THEN OvertakeLoop(i + 1,
                 UpdatePrice(acc, Find(acc.state, id),
                             [kind |-> "OVERTAKE", id |-> id,
                              oldRank |-> prevIndex, newRank |-> i],
                             OVERTAKE_BONUS_PCT, TRUE, ok[id]),
                 curOrder, prevOrder, ok)
          ELSE OvertakeLoop(i + 1, acc, curOrder, prevOrder, ok)

Max(a, b) == IF a > b THEN a ELSE b

\* Mutant: the array is sorted again at the end of the crash pass.
RECURSIVE CrashLoop_resort(_, _, _, _)
CrashLoop_resort(i, acc, crashed, ok) ==
  IF i > Len(acc.state) \/ acc.escaped THEN [acc EXCEPT !.state = sort(@)]
  ELSE LET r == acc.state[i]
       IN IF ~r.finished /\ r.id \in crashed
          THEN LET moved == [acc EXCEPT !.state[i].distance =
                                Max(0, r.distance - Q * r.speedStat * 2)]
               IN CrashLoop_resort(i + 1,
                    UpdatePrice(moved, i,
                                [kind |-> "CRASH", id |-> r.id,
                                 oldRank |-> 0, newRank |-> 0],
                                CRASH_PENALTY_PCT, FALSE, ok[r.id]),
                    crashed, ok)
          ELSE CrashLoop_resort(i + 1, acc, crashed, ok)

\* for (const r of state) { if (r.finished) continue; if (crash) {...} }
RECURSIVE CrashLoop(_, _, _, _)
CrashLoop(i, acc, crashed, ok) ==
  IF i > Len(acc.state) \/ acc.escaped THEN acc
  ELSE LET r == acc.state[i]
       IN IF ~r.finished /\ r.id \in crashed
          THEN LET moved == [acc EXCEPT !.state[i].distance =
                                Max(0, r.distance - Q * r.speedStat * 2)]
               IN CrashLoop(i + 1,
                    UpdatePrice(moved, i,
                                [kind |-> "CRASH", id |-> r.id,
                                 oldRank |-> 0, newRank |-> 0],
                                CRASH_PENALTY_PCT, FALSE, ok[r.id]),
                    crashed, ok)
          ELSE CrashLoop(i + 1, acc, crashed, ok)

\* Mutant: the finish pass does not test r.finished.
RECURSIVE FinishLoop_again(_, _, _, _)
FinishLoop_again(i, acc, raceDistance, ok) ==
  IF i > Len(acc.state) \/ acc.escaped THEN acc
  ELSE LET r == acc.state[i]
       IN IF r.distance >= Q * raceDistance
          THEN LET marked == [acc EXCEPT !.state[i].finished = TRUE,
                                         !.finishes[r.id] = @ + 1]
               IN FinishLoop_again(i + 1,
                    UpdatePrice(marked, i,
                                [kind |-> "FINISH", id |-> r.id,
                                 oldRank |-> 0, newRank |-> 0],
                                WINNER_BONUS_PCT, TRUE, ok[r.id]),
                    raceDistance, ok)
          ELSE FinishLoop_again(i + 1, acc, raceDistance, ok)

\* Mutant: only the first racer to finish (the winner) gets the bonus.
RECURSIVE FinishLoop_winnerOnly(_, _, _, _)
FinishLoop_winnerOnly(i, acc, raceDistance, ok) ==
  IF i > Len(acc.state) \/ acc.escaped THEN acc
  ELSE LET r == acc.state[i]
       IN IF ~r.finished /\ r.distance >= Q * raceDistance
          THEN LET marked == [acc EXCEPT !.state[i].finished = TRUE,
                                         !.finishes[r.id] = @ + 1]
                   ev == [kind |-> "FINISH", id |-> r.id, oldRank |-> 0, newRank |-> 0]
               IN FinishLoop_winnerOnly(i + 1,
                    IF \E j \in DOMAIN acc.state : acc.state[j].finished
                    THEN [marked EXCEPT !.events = Append(@, ev)]
                    ELSE UpdatePrice(marked, i, ev, WINNER_BONUS_PCT, TRUE, ok[r.id]),
                    raceDistance, ok)
          ELSE FinishLoop_winnerOnly(i + 1, acc, raceDistance, ok)

\* for (const r of state) { if (!r.finished && r.distance >= RACE_DISTANCE) {...} }
RECURSIVE FinishLoop(_, _, _, _)
FinishLoop(i, acc, raceDistance, ok) ==
  IF i > Len(acc.state) \/ acc.escaped THEN acc
  ELSE LET r == acc.state[i]
       IN IF ~r.finished /\ r.distance >= Q * raceDistance
          THEN LET marked == [acc EXCEPT !.state[i].finished = TRUE,
                                         !.finishes[r.id] = @ + 1]
               IN FinishLoop(i + 1,
                    UpdatePrice(marked, i,
                                [kind |-> "FINISH", id |-> r.id,
                                 oldRank |-> 0, newRank |-> 0],
                                WINNER_BONUS_PCT, TRUE, ok[r.id]),
                    raceDistance, ok)
          ELSE FinishLoop(i + 1, acc, raceDistance, ok)

\* What a pass leaves: the next position of runRace is `next` unless an
\* exception escaped.
Leave(acc, next) ==
  /\ state' = acc.state
  /\ chain' = acc.chain
  /\ events' = acc.events
  /\ writes' = acc.writes
  /\ finishes' = acc.finishes
  /\ pc' = IF acc.escaped THEN "aborted" ELSE next

\* The write outcomes of a pass: a write may fail for any subset of the ids
\* that have an event.
Outcomes(ids) ==
  {[id \in Ids |-> id \notin failing] : failing \in SUBSET ids}

(***************************************************************************)
(* runRace.                                                                *)
(***************************************************************************)
\* Mutant: the failed read is swallowed and the loop is entered without racers.
StartupFails_swallowed ==
  /\ pc = "start"
  /\ pc' = "advance"
  /\ UNCHANGED <<registry, call>>
  /\ UNCHANGED <<cfg, state, lastOrder, tick, chain, events, writes, finishes,
                 crashes>>

\* const racers = await apiFetch('/racers') throws: runRace rejects and the
\* process exits with 1.
StartupFails ==
  /\ pc = "start"
  /\ pc' = "failed"
  /\ UNCHANGED <<registry, call>>
  /\ UNCHANGED <<cfg, state, lastOrder, tick, chain, events, writes, finishes,
                 crashes>>

\* The roster is read: no racer ends runRace, otherwise the dynamic state is
\* initialised.
Startup ==
  /\ pc = "start"
  /\ LET racers == cfg.racers
     IN IF Len(racers) = 0
        THEN /\ pc' = "empty"
             /\ UNCHANGED state
        ELSE /\ pc' = "advance"
             /\ state' = [i \in DOMAIN racers |->
                           [id |-> racers[i].id,
                            name |-> racers[i].name,
                            speedStat |-> racers[i].speed,
                            aggression |-> racers[i].aggression,
                            consistency |-> racers[i].consistency,
                            distance |-> 0,
                            finished |-> FALSE,
                            currentPriceWei |-> racers[i].currentPrice]]
  /\ tick' = 0
  /\ UNCHANGED <<registry, call>>
  /\ UNCHANGED <<cfg, lastOrder, chain, events, writes, finishes, crashes>>

\* Mutant: the advance does not skip finished racers.
Advance_finishedToo ==
  /\ pc = "advance"
  /\ tick' = IF tick < MaxTick THEN tick + 1 ELSE tick
  /\ \E speed \in [DOMAIN state -> UNION {SpeedSamples(state[i], cfg.BASE_DRIFT) :
                                            i \in DOMAIN state}] :
       /\ \A i \in DOMAIN state : speed[i] \in SpeedSamples(state[i], cfg.BASE_DRIFT)
       /\ state' = [i \in DOMAIN state |->
                     [state[i] EXCEPT !.distance = @ + speed[i]]]
  /\ events' = <<>>
  /\ writes' = <<>>
  /\ pc' = "sort"
  /\ UNCHANGED <<registry, call>>
  /\ UNCHANGED <<cfg, lastOrder, chain, finishes, crashes>>

\* tick++ and the advance of every unfinished racer.
Advance ==
  /\ pc = "advance"
  /\ tick' = IF tick < MaxTick THEN tick + 1 ELSE tick
  /\ \E speed \in [DOMAIN state -> UNION {SpeedSamples(state[i], cfg.BASE_DRIFT) :
                                            i \in DOMAIN state}] :
       /\ \A i \in DOMAIN state : speed[i] \in SpeedSamples(state[i], cfg.BASE_DRIFT)
       /\ state' = [i \in DOMAIN state |->
                     IF state[i].finished THEN state[i]
                     ELSE [state[i] EXCEPT !.distance = @ + speed[i]]]
  /\ events' = <<>>
  /\ writes' = <<>>
  /\ pc' = "sort"
  /\ UNCHANGED <<registry, call>>
  /\ UNCHANGED <<cfg, lastOrder, chain, finishes, crashes>>

\* The sort by distance and the overtake detection against state._lastOrder.
SortAndDetect ==
  /\ pc = "sort"
  /\ LET sorted   == sort(state)
         curOrder == IdsOf(sorted)
     IN IF ~lastOrder.defined
        THEN /\ lastOrder' = Order(curOrder)
             /\ Leave(Acc(sorted, chain, events, writes, finishes), "crash")
        ELSE /\ lastOrder' = Order(curOrder)
             /\ \E ok \in Outcomes(Overtakers(curOrder, lastOrder.ids)) :
                  Leave(OvertakeLoop(1, Acc(sorted, chain, events, writes, finishes),
                                     curOrder, lastOrder.ids, ok),
                        "crash")
  /\ UNCHANGED <<registry, call>>
  /\ UNCHANGED <<cfg, tick, crashes>>

\* The crash pass: every unfinished racer may crash.
CrashPass ==
  /\ pc = "crash"
  /\ \E crashed \in SUBSET {state[i].id : i \in {h \in DOMAIN state : ~state[h].finished}} :
       /\ Cardinality(crashed) <= CrashesLeft
       /\ \A i \in DOMAIN state :
            (state[i].id \in crashed) \in RandomLess(CrashProbNum(state[i]), CrashProbDen)
       /\ crashes' = [id \in Ids |-> IF id \in crashed THEN crashes[id] + 1 ELSE crashes[id]]
       /\ \E ok \in Outcomes(crashed) :
            Leave(CrashLoop(1, Acc(state, chain, events, writes, finishes), crashed, ok),
                  "finish")
  /\ UNCHANGED <<registry, call>>
  /\ UNCHANGED <<cfg, lastOrder, tick>>

\* The finish pass.
FinishPass ==
  /\ pc = "finish"
  /\ \E ok \in Outcomes({state[i].id : i \in {h \in DOMAIN state :
                           ~state[h].finished
                           /\ state[h].distance >= Q * cfg.RACE_DISTANCE}}) :
       Leave(FinishLoop(1, Acc(state, chain, events, writes, finishes),
                        cfg.RACE_DISTANCE, ok),
             "check")
  /\ UNCHANGED <<registry, call>>
  /\ UNCHANGED <<cfg, lastOrder, tick, crashes>>

\* Mutant: the race ends as soon as one racer has finished.
AllFinished_some(s) == \E i \in DOMAIN s : s[i].finished

\* state.every(s => s.finished)
AllFinished(s) == \A i \in DOMAIN s : s[i].finished

\* if (state.every(s => s.finished)) { raceFinished = true; final sort; break }
\* and otherwise the sleep before the next tick.
CompletionCheck ==
  /\ pc = "check"
  /\ IF AllFinished(state)
     THEN /\ state' = sort(state)
          /\ pc' = "complete"
     ELSE /\ pc' = "advance"
          /\ UNCHANGED state
  /\ UNCHANGED <<registry, call>>
  /\ UNCHANGED <<cfg, lastOrder, tick, chain, events, writes, finishes, crashes>>

Next ==
  \/ StartupFails
  \/ Startup
  \/ Advance
  \/ SortAndDetect
  \/ CrashPass
  \/ FinishPass
  \/ CompletionCheck

Spec == Init /\ [][Next]_vars

\* A step of runRace moves it to another position.  Every step of Next is
\* one, and Next is enabled exactly where Proceeds is: from "start" and from
\* the five positions of a tick.
Proceeds ==
  /\ pc \in {"start", "advance", "sort", "crash", "finish", "check"}
  /\ pc' \in {"failed", "empty", "advance", "sort", "crash", "finish", "check",
             "complete"}
  /\ pc' # pc

\* runRace is never suspended for ever: every awaited call settles and every
\* sleep ends, so the step it is at is eventually taken.  (This is
\* WF_vars(Next), stated on Proceeds and pc.)
FairSpec == Spec /\ WF_pc(Proceeds)

(***************************************************************************)
(* Properties.                                                             *)
(***************************************************************************)
Running == pc \in {"advance", "sort", "crash", "finish", "check"}

\* The racer with this id in the array s.
ById(s, id) == s[CHOOSE i \in DOMAIN s : s[i].id = id]

EveryoneFinished == \A i \in DOMAIN state : state[i].finished

\* The events and writes a step appends to the tick's logs.
NewEvents == {n \in DOMAIN events' : n > Len(events) \/ pc = "advance"}

\* C1: runRace is COMPLETE only with every participant finished, and it is
\* inside a tick (up to the finish pass) only while some participant is not
\* finished: the completion check ends the race exactly when all have finished.
C1_CompleteIffAllFinished ==
  /\ pc = "complete" => EveryoneFinished
  /\ pc \in {"advance", "sort", "crash", "finish"} => ~EveryoneFinished

\* A three-racer race with a crash on the way is COMPLETE.
C1_Witness ==
  /\ pc = "complete"
  /\ Len(state) = 3
  /\ \E id \in Ids : crashes[id] > 0

SpeedExceedsNoise(r) ==
  LET consistency == IF r.consistency = 0 THEN 100 ELSE r.consistency
      dev == IF consistency > 200 THEN consistency - 200 ELSE 200 - consistency
  IN 400 * r.speedStat > cfg.BASE_DRIFT * dev

NoFailure == [id \in Ids |-> TRUE]

Attempts(wr) == [n \in DOMAIN wr |-> [id |-> wr[n].id, price |-> wr[n].price]]

SameRaceState(acc, next) ==
  /\ state' = acc.state
  /\ events' = acc.events
  /\ Attempts(writes') = Attempts(acc.writes)
  /\ finishes' = acc.finishes
  /\ pc' = next

C3_WriteFailureIgnored ==
  [][/\ pc' # "aborted"
     /\ (pc = "sort" /\ lastOrder.defined) =>
          SameRaceState(OvertakeLoop(1, Acc(sort(state), chain, events, writes, finishes),
                                     IdsOf(sort(state)), lastOrder.ids, NoFailure),
                        "crash")
     /\ pc = "crash" =>
          \E crashed \in SUBSET Ids :
            SameRaceState(CrashLoop(1, Acc(state, chain, events, writes, finishes),
                                    crashed, NoFailure),
                          "finish")
     /\ pc = "finish" =>
          SameRaceState(FinishLoop(1, Acc(state, chain, events, writes, finishes),
                                   cfg.RACE_DISTANCE, NoFailure),
                        "check")]_vars

\* A write failed and a later event of the same tick was still processed.
C3_Witness ==
  /\ Len(writes) >= 2
  /\ ~writes[1].ok

\* The events of one kind that a step logs for an id.
Logged(kind, id) ==
  {n \in NewEvents : events'[n].kind = kind /\ events'[n].id = id}

\* C4: finished never goes back to false; every id has at most one FINISH
\* event in a race and exactly one once the race is COMPLETE; and a racer
\* becomes finished exactly in a finish pass that finds it unfinished with
\* distance >= RACE_DISTANCE, which logs its one FINISH event.
C4_FinishOnce ==
  [][pc # "start" =>
       \A id \in Ids :
         LET r == ById(state, id)
             t == ById(state', id)
             reached == pc = "finish" /\ ~r.finished
                        /\ r.distance >= Q * cfg.RACE_DISTANCE
         IN /\ r.finished => t.finished
            /\ finishes'[id] <= 1
            /\ pc' = "complete" => finishes'[id] = 1
            /\ (~r.finished /\ t.finished) <=> reached
            /\ Cardinality(Logged("FINISH", id)) = (IF reached THEN 1 ELSE 0)
            /\ finishes'[id] = finishes[id] + (IF reached THEN 1 ELSE 0)]_vars

\* A COMPLETE race of three racers, which took several ticks.
C4_Witness ==
  /\ pc = "complete"
  /\ Len(state) = 3
  /\ tick >= 2
  /\ \A id \in Ids : finishes[id] = 1

\* C5: every distance stays >= 0, and a step lowers a racer's distance only
\* when it logs a CRASH event for that racer; the crash sets the distance to
\* max(0, distance - 2*speedStat).
C5_DistanceMonotoneExceptCrash ==
  [][pc # "start" =>
       \A id \in Ids :
         LET r == ById(state, id)
             t == ById(state', id)
         IN /\ t.distance >= 0
            /\ t.distance < r.distance => Logged("CRASH", id) # {}
            /\ Logged("CRASH", id) # {} =>
                 t.distance = Max(0, r.distance - 2 * Q * r.speedStat)]_vars

\* After a crash pass in which a racer was set back, not as far as to 0.
C5_Witness ==
  /\ pc = "finish"
  /\ \E n \in DOMAIN events :
       events[n].kind = "CRASH" /\ ById(state, events[n].id).distance > 0

(***************************************************************************)
(* Prices as numbers, for the properties, computed with TLC's own          *)
(* integers.  A decimal string is read as m * 10^z, where m is the value   *)
(* of its first MaxDigits digits (of all of them when it is shorter) and   *)
(* the z digits after them must all be 0.                                  *)
(***************************************************************************)
MaxDigits == 6

RECURSIVE DigitsValue(_)
DigitsValue(ds) ==
  IF ds = <<>> THEN 0 ELSE 10 * DigitsValue(SubSeq(ds, 1, Len(ds) - 1)) + ds[Len(ds)]

RECURSIVE DecimalOf(_)
DecimalOf(n) == IF n < 10 THEN <<n>> ELSE DecimalOf(n \div 10) \o <<n % 10>>

Zeros(z) == [i \in 1..z |-> 0]

Exponent(w) == Max(0, Len(w.digits) - MaxDigits)
Mantissa(w) == DigitsValue(SubSeq(w.digits, 1, Len(w.digits) - Exponent(w)))

\* The string is a number >= 0 that can be read this way.
Readable(w) ==
  /\ ~w.neg
  /\ w.digits # <<>>
  /\ \A i \in DOMAIN w.digits : i > MaxDigits => w.digits[i] = 0

\* The decimal string of m * 10^z.
Wei(m, z) == [neg |-> FALSE, digits |-> IF m = 0 THEN <<0>> ELSE DecimalOf(m) \o Zeros(z)]

\* The decimal string of n + floor(n*pct/100), or of max(0, n - floor(n*pct/100)),
\* for the number n that old is the string of.
Adjusted(old, pct, increase) ==
  LET m == Mantissa(old)
      z == Exponent(old)
  IN IF z >= 2
     \* floor(m * 10^z * pct / 100) = m * pct * 10^(z-2)
     THEN Wei(IF increase THEN 100 * m + m * pct ELSE Max(0, 100 * m - m * pct), z - 2)
     ELSE LET n == IF z = 1 THEN 10 * m ELSE m
              c == (n * pct) \div 100
          IN Wei(IF increase THEN n + c ELSE Max(0, n - c), 0)

\* Every event of this kind that the step logs has, at the same place of the
\* writes log, a write of the adjusted price for that id, and the racer holds
\* that price after the step.
PriceRule(kind, pct, increase) ==
  \A n \in NewEvents :
    events'[n].kind = kind =>
      LET id  == events'[n].id
          old == ById(state, id).currentPriceWei
          nw  == ById(state', id).currentPriceWei
      IN /\ Readable(old)
         /\ nw = Adjusted(old, pct, increase)
         /\ n \in DOMAIN writes'
         /\ writes'[n].id = id
         /\ writes'[n].price = nw

\* C6: after an Overtake event the racer's currentPrice, and the price
\* written for it, is p + floor(p*10/100) for its price p before the event;
\* 1000000000000000000 becomes 1100000000000000000.
C6_OvertakePrice ==
  [][pc = "sort" => PriceRule("OVERTAKE", 10, TRUE)]_vars

\* An Overtake was logged in this tick for the racer that started at OneEther
\* and now holds 1100000000000000000.
C6_Witness ==
  /\ pc = "crash"
  /\ \E n \in DOMAIN events :
       /\ events[n].kind = "OVERTAKE"
       /\ ById(state, events[n].id).currentPriceWei
            = Str(<<1,1,0,0,0,0,0,0,0,0,0,0,0,0,0,0,0,0,0>>)

\* C7: after a Crash event the racer's currentPrice, and the price written
\* for it, is max(0, p - floor(p*20/100)) for its price p before the event.
C7_CrashPrice ==
  [][pc = "crash" => PriceRule("CRASH", 20, FALSE)]_vars

\* Crashes were logged in this tick for a racer whose price is now 0 and for
\* a racer whose price is now above 0.
C7_Witness ==
  /\ pc = "finish"
  /\ \E n \in DOMAIN events :
       /\ events[n].kind = "CRASH"
       /\ ById(state, events[n].id).currentPriceWei # Str(<<0>>)
  /\ \E n \in DOMAIN events :
       /\ events[n].kind = "CRASH"
       /\ ById(state, events[n].id).currentPriceWei = Str(<<0>>)

C9_PriceNonNegative ==
  \A i \in DOMAIN state :
    LET w == state[i].currentPriceWei
    IN /\ ~w.neg
       /\ w.digits # <<>>
       /\ \A j \in DOMAIN w.digits : w.digits[j] \in 0..9
       /\ Len(w.digits) > 1 => w.digits[1] # 0

\* A racer has crashed MaxCrashes times, overtaken and finished.
C9_Witness ==
  /\ pc = "complete"
  /\ \E id \in Ids : crashes[id] = MaxCrashes
  /\ \E i \in DOMAIN state :
       state[i].currentPriceWei # cfg.racers[state[i].id].currentPrice

\* The race of the three-racer scenario: speeds 200, 1, 1, aggression 0,
\* consistency 255, RACE_DISTANCE 10, BASE_DRIFT 0.
ThreeRace == cfg = ThreeRoster /\ state # <<>>

\* No one but racer 1 is ever first in the array or in previousOrder, and no
\* Overtake into the first place is logged.
NeverOvertaken ==
  /\ state[1].id = 1
  /\ lastOrder.defined => lastOrder.ids[1] = 1
  /\ \A n \in DOMAIN events :
       events[n].kind = "OVERTAKE" => events[n].id # 1 /\ events[n].newRank > 1

\* C10 as stated: in the three-racer scenario racer 1 is finished at the end
\* of tick 1, is never overtaken, and the final ranking is [1,2,3].
C10_ThreeScenarioAsStated ==
  ThreeRace =>
    /\ (pc = "check" /\ tick = 1) => ById(state, 1).finished
    /\ NeverOvertaken
    /\ pc = "complete" => IdsOf(state) = <<1, 2, 3>>

\* C10: in the three-racer scenario racer 1 is finished at the end of tick 1
\* exactly when it did not crash in tick 1, is never overtaken, is first in
\* the final ranking, and the final ranking is [1,2,3] when racer 2 never
\* crashed.
C10_ThreeScenario ==
  ThreeRace =>
    /\ (pc = "check" /\ tick = 1) =>
         (ById(state, 1).finished <=> crashes[1] = 0)
    /\ NeverOvertaken
    /\ pc = "complete" => /\ state[1].id = 1
                          /\ crashes[2] = 0 => IdsOf(state) = <<1, 2, 3>>

\* The three-racer race is complete with ranking [1,2,3]; racers 1 and 3
\* crashed on the way and racer 2 did not.
C10_Witness ==
  /\ ThreeRace
  /\ pc = "complete"
  /\ crashes[1] > 0 /\ crashes[2] = 0 /\ crashes[3] > 0
  /\ IdsOf(state) = <<1, 2, 3>>

\* Nothing of a race exists: no race state, no tick, no event, no write, and
\* the Registry holds the prices it held at the start.
NoRace ==
  /\ state = <<>>
  /\ ~lastOrder.defined
  /\ tick = 0
  /\ events = <<>>
  /\ writes = <<>>
  /\ chain = [id \in Ids |-> cfg.racers[IndexOf(IdsOf(cfg.racers), id)].currentPrice]

\* C11: when the initial read of the racers fails, runRace ends there (the
\* process exits): no tick is executed, no race state is created and no price
\* is written; the loop is only entered with the race state made from a roster
\* that was read.
C11_ReadFailureAbortsStartup ==
  /\ [](pc = "failed" => NoRace)
  /\ [][/\ pc = "failed" => pc' = "failed"
        /\ pc' = "failed" => pc \in {"start", "failed"}
        /\ (pc = "start" /\ pc' \in {"advance", "sort", "crash", "finish", "check",
                                     "complete"})
             => /\ pc' = "advance"
                /\ IdsOf(state') = IdsOf(cfg.racers)
                /\ state' # <<>>]_vars

\* The read failed although racers are minted.
C11_Witness ==
  /\ pc = "failed"
  /\ Len(cfg.racers) = 3

\* The n-th event of the tick is the last one of its racer in the tick.
LastOfItsRacer(n) ==
  \A h \in DOMAIN events : h > n => events[h].id # events[n].id

\* C12: the price writes of a tick are, one for one and in order, its
\* Overtake, Crash and Finish events: the n-th write is for the n-th event's
\* racer with the price that event left it (no second attempt after a
\* failure, no write without an event); the Registry only changes through
\* such a write; and the roster is read once, at startup.
C12_OneWritePerEvent ==
  /\ [](/\ Len(writes) = Len(events)
        /\ \A n \in DOMAIN events :
             /\ events[n].kind \in {"OVERTAKE", "CRASH", "FINISH"}
             /\ writes[n].id = events[n].id
             /\ LastOfItsRacer(n) =>
                  writes[n].price = ById(state, events[n].id).currentPriceWei)
  /\ [][/\ cfg' = cfg
        /\ pc # "start" => pc' # "start"
        /\ \A id \in Ids :
             chain'[id] # chain[id] =>
               \E n \in NewEvents : /\ writes'[n].id = id
                                    /\ writes'[n].ok
                                    /\ writes'[n].price = chain'[id]]_vars

\* A tick is over in which one racer had two events, and a write failed.
C12_Witness ==
  /\ pc = "check"
  /\ \E n \in DOMAIN events : ~LastOfItsRacer(n)
  /\ \E n \in DOMAIN writes : ~writes[n].ok
  /\ \E n \in DOMAIN writes : writes[n].ok

\* The Overtake events a step logs for an id.
NewOvertakes(id) == Logged("OVERTAKE", id)

\* C13: the sort step of tick 1 logs no Overtake and sets previousOrder to
\* the sorted id order; the sort step of a later tick logs an Overtake for an
\* id exactly when its place p in previousOrder is behind its place i in the
\* new order (one event, with oldRank p and newRank i, ranks counted from 1),
\* and sets previousOrder to the new order; no other step logs an Overtake
\* or changes previousOrder.
C13_OvertakeIffRankImproved ==
  [][IF pc = "sort"
     THEN LET cur == IdsOf(state')
          IN /\ lastOrder.defined <=> tick >= 2
             /\ lastOrder' = Order(cur)
             /\ \A id \in Ids :
                  LET p == IndexOf(lastOrder.ids, id)
                      i == IndexOf(cur, id)
                  IN /\ NewOvertakes(id) # {} <=> (tick >= 2 /\ p > i)
                     /\ Cardinality(NewOvertakes(id)) <= 1
                     /\ \A n \in NewOvertakes(id) :
                          events'[n].oldRank = p /\ events'[n].newRank = i
     ELSE /\ lastOrder' = lastOrder
          /\ \A id \in Ids : NewOvertakes(id) = {}]_vars

\* An Overtake from rank 3 to rank 2 was logged in a tick after the second.
C13_Witness ==
  /\ pc = "crash"
  /\ tick >= 3
  /\ \E n \in DOMAIN events :
       /\ events[n].kind = "OVERTAKE"
       /\ events[n].oldRank = 3
       /\ events[n].newRank = 2

\* new holds the racers of old with their distances, by distance descending,
\* and racers of equal distance in the order they have in old.
StablySorted(old, new) ==
  /\ Len(new) = Len(old)
  /\ \A i \in DOMAIN old : ById(new, old[i].id).distance = old[i].distance
  /\ \A i, j \in DOMAIN new :
       i < j => /\ new[i].distance >= new[j].distance
                /\ new[i].distance = new[j].distance
                     => Find(old, new[i].id) < Find(old, new[j].id)

\* C14: the sort of a tick and the final sort order by distance descending
\* and keep racers of equal distance in the order of the array, which is
\* the roster order on tick 1 and previousOrder afterwards; so every Overtake
\* logged for a racer comes with a racer that was ahead of it and is now
\* behind it with a strictly smaller distance.
C14_SortStable ==
  [][/\ (pc = "sort" \/ (pc = "check" /\ pc' = "complete"))
          => StablySorted(state, state')
     /\ pc = "sort" =>
          /\ IdsOf(state) = IF lastOrder.defined THEN lastOrder.ids
                            ELSE IdsOf(cfg.racers)
          /\ \A n \in NewEvents :
               \E y \in Ids :
                 /\ IndexOf(lastOrder.ids, y) < events'[n].oldRank
                 /\ Find(state', y) > events'[n].newRank
                 /\ ById(state', y).distance
                      < ById(state', events'[n].id).distance]_vars

\* After a sort of the three-racer race, racers 3 and 2 are level and keep
\* their earlier order, with 3 ahead of 2.
C14_Witness ==
  /\ pc = "crash"
  /\ cfg = ThreeRoster
  /\ IdsOf(state) = <<1, 3, 2>>
  /\ lastOrder.ids = <<1, 3, 2>>
  /\ state[2].distance = state[3].distance

\* C15: a tick runs advance, sort and overtake detection, crash pass, finish
\* pass, in this order.  The crash pass leaves the array order, previousOrder
\* and the events already logged as they are and logs no Overtake; the finish
\* pass marks exactly the unfinished racers whose distance after the crash
\* pass is >= RACE_DISTANCE, so a racer that crashed in the tick to below
\* RACE_DISTANCE is not finished at the end of the tick.
C15_PhaseOrder ==
  /\ [](pc = "check" =>
          \A n \in DOMAIN events :
            (/\ events[n].kind = "CRASH"
             /\ ById(state, events[n].id).distance < Q * cfg.RACE_DISTANCE)
              => ~ById(state, events[n].id).finished)
  /\ [][/\ pc = "advance" => pc' = "sort"
        /\ pc = "sort" => pc' = "crash"
        /\ pc = "crash" => pc' = "finish"
        /\ pc = "finish" => pc' = "check"
        /\ pc = "check" => pc' \in {"advance", "complete"}
        /\ pc # "advance" => tick' = tick
        /\ pc = "crash" =>
             /\ IdsOf(state') = IdsOf(state)
             /\ lastOrder' = lastOrder
             /\ SubSeq(events', 1, Len(events)) = events
             /\ \A n \in NewEvents : events'[n].kind = "CRASH"
        /\ pc = "finish" =>
             /\ IdsOf(state') = IdsOf(state)
             /\ \A i \in DOMAIN state :
                  /\ state'[i].distance = state[i].distance
                  /\ state'[i].finished <=>
                       \/ state[i].finished
                       \/ state[i].distance >= Q * cfg.RACE_DISTANCE]_vars

\* The racer of the default roster had advanced to RACE_DISTANCE or more,
\* crashed in the same tick to below it, and is not finished after the
\* finish pass.
C15_Witness ==
  /\ pc = "check"
  /\ cfg = DefaultRoster
  /\ \E n \in DOMAIN events : events[n].kind = "CRASH"
  /\ state[1].distance > 0
  /\ state[1].distance < Q * cfg.RACE_DISTANCE
  /\ state[1].distance + Q * state[1].speedStat * 2 >= Q * cfg.RACE_DISTANCE
  /\ ~state[1].finished

\* What the race never changes of a racer.
Identity(r) ==
  [id |-> r.id, name |-> r.name, speedStat |-> r.speedStat,
   aggression |-> r.aggression, consistency |-> r.consistency]

\* The ids in seq are the roster's ids, each once.
ExactlyTheIds(seq) ==
  /\ Len(seq) = Len(cfg.racers)
  /\ {seq[i] : i \in DOMAIN seq} = Ids

\* C16: a finished racer's distance never changes again and it never
\* crashes again, but it stays in the array and in previousOrder; from
\* startup on the array and previousOrder hold exactly the roster's ids, and
\* every racer keeps its id, name and stats.
C16_FinishedFrozen ==
  /\ [](state # <<>> =>
          /\ ExactlyTheIds(IdsOf(state))
          /\ lastOrder.defined => ExactlyTheIds(lastOrder.ids)
          /\ \A i \in DOMAIN cfg.racers :
               Identity(ById(state, cfg.racers[i].id))
                 = [id |-> cfg.racers[i].id, name |-> cfg.racers[i].name,
                    speedStat |-> cfg.racers[i].speed,
                    aggression |-> cfg.racers[i].aggression,
                    consistency |-> cfg.racers[i].consistency])
  /\ [][state # <<>> =>
          \A id \in Ids :
            /\ Identity(ById(state', id)) = Identity(ById(state, id))
            /\ ById(state, id).finished =>
                 /\ ById(state', id).distance = ById(state, id).distance
                 /\ crashes'[id] = crashes[id]
                 /\ Logged("CRASH", id) = {}]_vars

\* A racer is finished while another one crashes in a later tick.
C16_Witness ==
  /\ pc = "finish"
  /\ \E n \in DOMAIN events :
       /\ events[n].kind = "CRASH"
       /\ \E i \in DOMAIN state :
            /\ state[i].finished
            /\ state[i].id # events[n].id
            /\ IndexOf(lastOrder.ids, state[i].id) > 0

\* C17: once a racer has had its Finish event, no later step logs an
\* Overtake, Crash or Finish event for it, changes its currentPrice or
\* writes a price for its id.
C17_FinishTerminal ==
  [][state # <<>> =>
       \A id \in Ids :
         finishes[id] > 0 =>
           /\ \A n \in NewEvents : events'[n].id # id /\ writes'[n].id # id
           /\ ById(state', id).currentPriceWei
                = ById(state, id).currentPriceWei]_vars

\* max(0, speedStat + aggressionBurst + noise) with consistencyFactor =
\* consistency/200 for every consistency, in model units, for the noise
\* sample k/NoiseSteps.
SpeedSampleByFactor(r, baseDrift, k, burst) ==
  LET noise == (2 * k - NoiseSteps) * baseDrift * (200 - r.consistency)
      aggressionBurst == IF burst THEN 20 * NoiseSteps * r.aggression ELSE 0
  IN Max(0, Q * r.speedStat + aggressionBurst + noise)

\* C18: for every racer of a race, whatever its consistency is, and for every
\* outcome of the two random samples, racerSpeedTick returns
\* max(0, speedStat + aggressionBurst + noise) with the noise computed from
\* consistencyFactor = consistency/200.
C18_ConsistencyFactor ==
  \A i \in DOMAIN state :
    \A k \in 0..(NoiseSteps - 1), burst \in RandomLess(state[i].aggression, 500) :
      racerSpeedTick([speed |-> state[i].speedStat,
                      aggression |-> state[i].aggression,
                      consistency |-> state[i].consistency],
                     cfg.BASE_DRIFT, k, burst)
        = SpeedSampleByFactor(state[i], cfg.BASE_DRIFT, k, burst)

(***************************************************************************)
(* The Registry on its own: transactions from any account, no race.        *)
(***************************************************************************)
raceVars == <<cfg, pc, state, lastOrder, tick, events, writes, finishes, crashes>>

\* The stats and prices the transactions are sent with.
Stats == {0, 255}
Prices == {Str(<<0>>), Str(<<5>>), OneEther}

\* The world a transaction leaves, and the transaction.
Sent(fn, sender, res) ==
  /\ registry' = res.registry
  /\ chain' = res.chain
  /\ call' = [fn |-> fn, sender |-> sender, id |-> res.id, reverted |-> res.reverted]
  /\ UNCHANGED raceVars

World == [registry |-> registry, chain |-> chain]

CallSetPriceUpdater ==
  \E sender \in Addresses, updater \in Addresses :
    Sent("setPriceUpdater", sender, setPriceUpdater(World, sender, updater))

CallMintRacer ==
  /\ Len(registry.racerIds) < MaxMint
  /\ \E sender \in Addresses, stat \in Stats, price \in Prices :
       Sent("mintRacer", sender,
            mintRacer(World, sender, "R", stat, stat, stat, price))

CallUpdatePrice ==
  \E sender \in Addresses, id \in 0..(MaxMint + 1), newPrice \in Prices :
    LET res == updatePrice(World, sender, id, newPrice)
    IN Sent("updatePrice", sender, [res EXCEPT !.id = id])

RegistryInit == Init /\ cfg = EmptyRoster

RegistryNext ==
  \/ CallSetPriceUpdater
  \/ CallMintRacer
  \/ CallUpdatePrice

RegistrySpec == RegistryInit /\ [][RegistryNext]_vars

\* The ids of the racers in the Registry.
Minteds == DOMAIN registry.racers

\* C19: a stored price only changes by an updatePrice for that id, which
\* exists, sent by the owner or the current priceUpdater, and that call
\* changes nothing else; an updatePrice from another sender or for an id
\* that does not exist reverts, and a reverted call changes nothing.  A mint
\* takes the id nextId, which no racer has yet, and advances nextId; ids are
\* >= 1 and below nextId, each listed once, and no racer is ever removed or
\* overwritten.
C19_RegistryGuards ==
  /\ [](/\ \A id \in Minteds : id >= 1 /\ id < registry.nextId
                                 /\ registry.racers[id].id = id
        /\ DOMAIN chain = Minteds
        /\ {registry.racerIds[i] : i \in DOMAIN registry.racerIds} = Minteds
        /\ Len(registry.racerIds) = Cardinality(Minteds))
  /\ [][/\ \A id \in Minteds :
             /\ id \in DOMAIN registry'.racers
             /\ registry'.racers[id] = registry.racers[id]
             /\ chain'[id] # chain[id] =>
                  /\ call'.fn = "updatePrice" /\ call'.id = id /\ ~call'.reverted
                  /\ call'.sender \in {registry.owner, registry.priceUpdater}
        /\ call'.reverted => (registry' = registry /\ chain' = chain)
        /\ call'.fn = "updatePrice" =>
             /\ registry' = registry
             /\ DOMAIN chain' = DOMAIN chain
             /\ \A id \in Minteds \ {call'.id} : chain'[id] = chain[id]
             /\ call'.reverted <=>
                  \/ call'.sender \notin {registry.owner, registry.priceUpdater}
                  \/ call'.id \notin Minteds
        /\ registry'.nextId >= registry.nextId
        /\ (call'.fn = "mintRacer" /\ ~call'.reverted) =>
             /\ call'.id = registry.nextId
             /\ call'.id \notin Minteds
             /\ registry'.nextId > call'.id
             /\ DOMAIN registry'.racers = Minteds \cup {call'.id}]_vars

\* The priceUpdater, which is not the owner, has changed the price of the
\* second of two racers.
C19_Witness ==
  /\ call.fn = "updatePrice"
  /\ ~call.reverted
  /\ call.sender = registry.priceUpdater
  /\ call.sender # registry.owner
  /\ call.id = 2
  /\ Minteds = {1, 2}
  /\ chain[2] # chain[1]

\* The Registry holds every racer's local price.
InSync ==
  \A i \in DOMAIN state : chain[state[i].id] = state[i].currentPriceWei

=============================================================================
